---- MODULE Spec2Model ----
(***************************************************************************)
(* A model of readthedocs/oauth/tasks.py: the Celery tasks that re-sync a  *)
(* user's remote repositories (sync_remote_repositories), distribute the   *)
(* re-sync over the members of organizations                               *)
(* (sync_remote_repositories_organizations), re-sync the active users once *)
(* a week (sync_active_users_remote_repositories) and attach a webhook to  *)
(* a project (attach_webhook).                                             *)
(*                                                                         *)
(* Time is counted in whole days.  A provider account is the pair          *)
(* <<service class, position in for_user(user)>>.  The rows of the         *)
(* socialaccount table of a user are the accounts the registered services  *)
(* enumerate for that user.                                                *)
(***************************************************************************)
EXTENDS Integers, Sequences, FiniteSets, TLC

\* ---------------------------------------------------------------- bounds
MaxAccounts == 2       \* accounts one user holds with one provider

\* ------------------------------------------------------ program constants
ActiveDays == 90       \* datetime.timedelta(days=90)
CountdownStep == 5     \* countdown=n_task * 5

None == "None"

\* `from .services import registry`: the ordered service classes
registry == <<"GitHub", "GitLab">>

Services == {registry[i] : i \in 1..Len(registry)}

\* the users stored in the database, by primary key
Users == {1, 2}

\* ids a task can be called with: the stored users and one id that is not stored
UserIds == Users \cup {3}

\* what one account's sync() does: returns, raises SyncServiceError, or raises
\* an exception of another class
SyncOutcomes == {"ok", "SyncServiceError", "Exception"}

VARIABLES
    accounts,            \* accounts[u][s]: how many accounts s.for_user(u) yields
    last_login,          \* User.last_login: <<day number>>, or <<>> for NULL
    now,                 \* timezone.now(), a day number
    \* ---- sync_remote_repositories: the record of the latest call
    syncUser,            \* its user_id argument (0: not called yet)
    syncCalls,           \* the accounts sync() was invoked on, in order
    syncFailedAccounts,  \* the accounts whose sync() raised SyncServiceError
    syncOtherErrors,     \* the accounts whose sync() raised another exception
    failed_services,     \* the set failed_services when the call ended
    syncResult,          \* "returned", "SyncServiceError", "Exception"; "none" before
    syncErrorProviders,  \* the provider names the raised error enumerates, in order
    \* ---- sync_active_users_remote_repositories
    wkPc,                \* "idle", "loop", "done"
    wkRows,              \* rows of `users` not iterated yet: user -> number of rows
    wkSelected,          \* rows of `users` when the queryset was evaluated
    wkAttempts,          \* wkAttempts[u]: calls of sync_remote_repositories(u) by the runs so far
    wkCaught,            \* exceptions caught by `except Exception` in the run
    wkResult,            \* "none", "returned", "raised"
    wkRuns,              \* runs of the task that have ended
    \* ---- sync_remote_repositories_organizations
    orgMembers,          \* AdminPermission.members(organization), a set of users
    orgSSO,              \* SSOIntegration.provider of the organization, or "none"
    organization_slugs,  \* the argument: <<>> for None, <<S>> for the slugs S
    orgPc,               \* "idle", "query", "members", "done"
    query,               \* organizations of `query` not iterated yet
    orgResolved,         \* the organizations of `query` when it was built
    organization,        \* the organization of the current iteration, or None
    members,             \* members of it not iterated yet
    n_task,
    jobs,                \* the apply_async calls made: [user_id, countdown], in order
    \* ---- attach_webhook
    is_project_service,  \* the service classes whose is_project_service(project) holds
    has_valid_webhook,   \* Project.has_valid_webhook as stored in the database
    webhook_at_start,    \* the stored has_valid_webhook before any call (never changed)
    attach               \* attach[c]: the position and the locals of call c

syncVars == <<syncUser, syncCalls, syncFailedAccounts, syncOtherErrors, failed_services,
              syncResult, syncErrorProviders>>
wkVars == <<wkPc, wkRows, wkSelected, wkAttempts, wkCaught, wkResult, wkRuns>>
orgVars == <<organization_slugs, orgPc, query, orgResolved, organization, members,
             n_task, jobs>>
webhookVars == <<has_valid_webhook, attach>>
worldVars == <<accounts, last_login, now, orgMembers, orgSSO, is_project_service,
               webhook_at_start>>
vars == <<worldVars, syncVars, wkVars, orgVars, webhookVars>>

\* ------------------------------------------------------------ helpers
RECURSIVE SeqsOver(_, _)
\* the sequences without repetition that enumerate the n-element subsets of S
SeqsOver(S, n) ==
    IF n = 0 THEN {<<>>}
    ELSE UNION {{Append(q, x) : x \in S \ {q[i] : i \in 1..Len(q)}} : q \in SeqsOver(S, n - 1)}

\* the orders in which a Python set can be iterated
IterationOrders(S) == SeqsOver(S, Cardinality(S))

Range(q) == {q[i] : i \in 1..Len(q)}

\* ------------------------------------------------- sync_remote_repositories

\* service_cls.for_user(user): the user's accounts with that provider, in order
for_user(service_cls, user) ==
    [i \in 1..accounts[user][service_cls] |-> <<service_cls, i>>]

\* service.provider_name
provider_name(service) == service[1]

AccountsOf(user) ==
    {<<s, i>> : s \in Services, i \in 1..MaxAccounts} \cap
    UNION {Range(for_user(s, user)) : s \in Services}

\* try: service.sync() / except SyncServiceError: the loop goes on after a
\* sync() that returned or raised SyncServiceError; any other exception leaves it
ContinuesAfterBreakOnError(outcome) == outcome = "ok"

ContinuesAfterAnyException(outcome) == TRUE

ContinuesAfter(outcome) == outcome \in {"ok", "SyncServiceError"}

\* except SyncServiceError: failed_services.add(service.provider_name)
AddFailedAll(failed, service, outcome) == failed \cup {provider_name(service)}

AddFailed(failed, service, outcome) ==
    IF outcome = "SyncServiceError" THEN failed \cup {provider_name(service)} ELSE failed

RECURSIVE SyncLoop(_, _, _, _, _, _)
\* for service_cls in registry: for service in service_cls.for_user(user): ...
\* from position (s, a), with the calls made and the failures recorded so far
SyncLoop(user, outcome, s, a, calls, failed) ==
    IF s > Len(registry)
    THEN [calls |-> calls, failed |-> failed, raised |-> None]
    ELSE LET services == for_user(registry[s], user) IN
         IF a > Len(services)
         THEN SyncLoop(user, outcome, s + 1, 1, calls, failed)
         ELSE LET service == services[a]
                  made == Append(calls, service)
                  nowFailed == AddFailed(failed, service, outcome[service])
              IN  IF ContinuesAfter(outcome[service])
                  THEN SyncLoop(user, outcome, s, a + 1, made, nowFailed)
                  ELSE [calls |-> made, failed |-> nowFailed, raised |-> outcome[service]]

\* if failed_services: raise SyncServiceError(...)
RaisesAggregateAlways(failed) == TRUE

RaisesAggregate(failed) == failed # {}

\* One call sync_remote_repositories(user_id), from `user = ...first()` to its
\* return or raise; it sets the record of the latest call.
CallSync(user_id) ==
    /\ syncUser' = user_id
    /\ IF user_id \notin Users
       THEN \* if not user: return
            /\ syncCalls' = <<>>
            /\ syncFailedAccounts' = {}
            /\ syncOtherErrors' = {}
            /\ failed_services' = {}
            /\ syncResult' = "returned"
            /\ syncErrorProviders' = <<>>
       ELSE \E outcome \in [AccountsOf(user_id) -> SyncOutcomes] :
            LET r == SyncLoop(user_id, outcome, 1, 1, <<>>, {}) IN
            /\ syncCalls' = r.calls
            /\ syncFailedAccounts' =
                   {r.calls[i] : i \in {j \in 1..Len(r.calls) :
                                          outcome[r.calls[j]] = "SyncServiceError"}}
            /\ syncOtherErrors' =
                   {r.calls[i] : i \in {j \in 1..Len(r.calls) :
                                          outcome[r.calls[j]] = "Exception"}}
            /\ failed_services' = r.failed
            /\ IF r.raised # None
               THEN /\ syncResult' = r.raised
                    /\ syncErrorProviders' = <<>>
               ELSE IF RaisesAggregate(r.failed)
               THEN /\ syncResult' = "SyncServiceError"
                    \* ", ".join(failed_services)
                    /\ syncErrorProviders' \in IterationOrders(r.failed)
               ELSE /\ syncResult' = "returned"
                    /\ syncErrorProviders' = <<>>

\* the task called on its own (the model follows one call)
sync_remote_repositories ==
    /\ syncResult = "none"
    /\ \E user_id \in UserIds : CallSync(user_id)
    /\ UNCHANGED <<worldVars, wkVars, orgVars, webhookVars>>

\* what a call sync_remote_repositories(user_id) raises, None when it returns
SyncRaises(user_id, outcome) ==
    IF user_id \notin Users THEN None
    ELSE LET r == SyncLoop(user_id, outcome, 1, 1, <<>>, {}) IN
         IF r.raised # None THEN r.raised
         ELSE IF RaisesAggregate(r.failed) THEN "SyncServiceError" ELSE None

\* ------------------------------------ sync_active_users_remote_repositories

\* datetime.isoweekday() and ExtractIsoWeekDay: Monday = 1 .. Sunday = 7
IsoWeekDay(day) == (day % 7) + 1

today_weekday == IsoWeekDay(now)

three_months_ago == now - ActiveDays

\* last_login__gt=three_months_ago (a NULL last_login matches no comparison)
LastLoginFilter(u) == last_login[u] # <<>> /\ last_login[u][1] > three_months_ago

\* weekday=today_weekday, with weekday=ExtractIsoWeekDay("last_login")
WeekdayFilterDropped(u) == TRUE

WeekdayFilter(u) == last_login[u] # <<>> /\ IsoWeekDay(last_login[u][1]) = today_weekday

\* socialaccount__isnull=False joins auth_user with the socialaccount table: the
\* queryset holds one row of a matching user per linked account (no distinct())
QueryRows(u) ==
    IF LastLoginFilter(u) /\ WeekdayFilter(u) THEN Cardinality(AccountsOf(u)) ELSE 0

\* today_weekday = ...; users = User.objects.annotate(...).filter(...)
WeeklyStart ==
    /\ wkPc = "idle"
    /\ wkPc' = "loop"
    /\ wkRows' = [u \in Users |-> QueryRows(u)]
    /\ wkSelected' = [u \in Users |-> QueryRows(u)]
    /\ UNCHANGED <<wkAttempts, wkCaught, wkResult, wkRuns, worldVars, syncVars, orgVars, webhookVars>>

\* except Exception: log.exception(...): what the loop does with what the call raised
Propagates(raised) == FALSE

\* one iteration of `for i, user in enumerate(users)`: the rows come in the
\* order the database returns them
WeeklyIter ==
    /\ wkPc = "loop"
    /\ \E u \in Users :
        /\ wkRows[u] > 0
        /\ wkRows' = [wkRows EXCEPT ![u] = @ - 1]
        /\ wkAttempts' = [wkAttempts EXCEPT ![u] = @ + 1]
        /\ \E raised \in {SyncRaises(u, outcome) : outcome \in [AccountsOf(u) -> SyncOutcomes]} :
           IF Propagates(raised)
           THEN /\ wkPc' = "done"
                /\ wkResult' = "raised"
                /\ wkCaught' = wkCaught
           ELSE /\ wkPc' = "loop"
                /\ wkResult' = wkResult
                /\ wkCaught' = IF raised # None THEN wkCaught + 1 ELSE wkCaught
    /\ wkRuns' = IF wkPc' = "done" THEN wkRuns + 1 ELSE wkRuns
    /\ UNCHANGED <<wkSelected, worldVars, syncVars, orgVars, webhookVars>>

\* the loop is exhausted and the task returns
WeeklyEnd ==
    /\ wkPc = "loop"
    /\ \A u \in Users : wkRows[u] = 0
    /\ wkPc' = "done"
    /\ wkResult' = "returned"
    /\ wkRuns' = wkRuns + 1
    /\ UNCHANGED <<wkRows, wkSelected, wkAttempts, wkCaught, worldVars, syncVars, orgVars, webhookVars>>

\* "This task is thought to be executed daily": a day after a run has ended the
\* scheduler starts the next one (the model follows the runs of one week)
NextDay ==
    /\ wkPc = "done"
    /\ wkRuns < 7
    /\ now' = now + 1
    /\ wkPc' = "idle"
    /\ wkRows' = [u \in Users |-> 0]
    /\ wkSelected' = [u \in Users |-> 0]
    /\ wkResult' = "none"
    /\ UNCHANGED <<wkAttempts, wkCaught, wkRuns, accounts, last_login, orgMembers, orgSSO,
                   is_project_service, webhook_at_start, syncVars, orgVars, webhookVars>>

\* ------------------------------------ sync_remote_repositories_organizations

\* the organizations stored in the database, by slug
Organizations == {"a", "b"}

\* slugs a caller can pass: those of the stored organizations and one unknown slug
Slugs == Organizations \cup {"x"}

PROVIDER_ALLAUTH == "allauth"

\* if organization_slugs: (None and the empty list are both false)
SlugsGiven(slugs) == slugs # <<>> /\ slugs[1] # {}

\* Organization.objects.filter(slug__in=organization_slugs), or the organizations
\* of the SSOIntegration rows with provider=SSOIntegration.PROVIDER_ALLAUTH
ResolveOrganizations(slugs) ==
    IF SlugsGiven(slugs)
    THEN {o \in Organizations : o \in slugs[1]}
    ELSE {o \in Organizations : orgSSO[o] = PROVIDER_ALLAUTH}

\* countdown=n_task * 5
CountdownOffByOne(n) == (n + 1) * CountdownStep

Countdown(n) == n * CountdownStep

\* the task is called: the query is built and n_task = -1
OrgStart ==
    /\ orgPc = "idle"
    /\ \E slugs \in {<<>>} \cup {<<S>> : S \in SUBSET Slugs} :
        /\ organization_slugs' = slugs
        /\ query' = ResolveOrganizations(slugs)
        /\ orgResolved' = ResolveOrganizations(slugs)
    /\ n_task' = -1
    /\ orgPc' = "query"
    /\ UNCHANGED <<organization, members, jobs, worldVars, syncVars, wkVars, webhookVars>>

\* for organization in query: members = AdminPermission.members(organization)
OrgNextOrganization ==
    /\ orgPc = "query"
    /\ \E o \in query :
        /\ query' = query \ {o}
        /\ organization' = o
        /\ members' = orgMembers[o]
    /\ orgPc' = "members"
    /\ UNCHANGED <<organization_slugs, orgResolved, n_task, jobs,
                   worldVars, syncVars, wkVars, webhookVars>>

\* for user in members: n_task += 1; sync_remote_repositories.apply_async(...)
OrgSubmit ==
    /\ orgPc = "members"
    /\ \E user \in members :
        /\ members' = members \ {user}
        /\ n_task' = n_task + 1
        /\ jobs' = Append(jobs, [user_id |-> user, countdown |-> Countdown(n_task + 1)])
    /\ UNCHANGED <<organization_slugs, orgPc, query, orgResolved, organization,
                   worldVars, syncVars, wkVars, webhookVars>>

\* the members of the organization are exhausted
OrgMembersDone ==
    /\ orgPc = "members"
    /\ members = {}
    /\ orgPc' = "query"
    /\ UNCHANGED <<organization_slugs, query, orgResolved, organization, members,
                   n_task, jobs, worldVars, syncVars, wkVars, webhookVars>>

\* the organizations are exhausted and the task returns
OrgEnd ==
    /\ orgPc = "query"
    /\ query = {}
    /\ orgPc' = "done"
    /\ UNCHANGED <<organization_slugs, query, orgResolved, organization, members,
                   n_task, jobs, worldVars, syncVars, wkVars, webhookVars>>

\* ------------------------------------------------------------ attach_webhook

\* the calls of attach_webhook the model follows
Calls == {1, 2}

\* the project stored in the database, and a primary key that is not stored
Projects == {1}
ProjectIds == Projects \cup {2}

\* Integration.integration_type of the integration passed; None: no integration
IntegrationTypes == {"github_webhook", "gitlab_webhook", "api_webhook"}

\* readthedocs.oauth.utils.SERVICE_MAP: integration type -> service class
SERVICE_MAP == [t \in {"github_webhook", "gitlab_webhook"} |->
                   IF t = "github_webhook" THEN "GitHub" ELSE "GitLab"]

\* allauth_registry.by_id(service.adapter.provider_id).name
ProviderDisplayName(service_cls) == service_cls

MESSAGE_OAUTH_WEBHOOK_INVALID == "oauth:webhook:invalid"
MESSAGE_OAUTH_WEBHOOK_NO_ACCOUNT == "oauth:webhook:no-account"
MESSAGE_OAUTH_WEBHOOK_NO_PERMISSIONS == "oauth:webhook:no-permissions"

IdleCall ==
    [pc |-> "idle", project_pk |-> 0, user_pk |-> 0, integration |-> None,
     loaded |-> FALSE, project |-> FALSE, service |-> None, user_accounts |-> <<>>,
     consulted |-> <<>>, tried |-> <<>>, saves |-> 0, notifications |-> <<>>, result |-> "pending"]

\* SERVICE_MAP.get(integration.integration_type)
ServiceOfIntegration(integration) ==
    IF integration \in DOMAIN SERVICE_MAP THEN SERVICE_MAP[integration] ELSE None

\* for service_cls in registry: if service_cls.is_project_service(project): ... break
FirstProjectServiceLast ==
    IF \E i \in 1..Len(registry) : registry[i] \in is_project_service
    THEN registry[CHOOSE i \in 1..Len(registry) :
                    /\ registry[i] \in is_project_service
                    /\ \A j \in (i + 1)..Len(registry) : registry[j] \notin is_project_service]
    ELSE None

FirstProjectService ==
    IF \E i \in 1..Len(registry) : registry[i] \in is_project_service
    THEN registry[CHOOSE i \in 1..Len(registry) :
                    /\ registry[i] \in is_project_service
                    /\ \A j \in 1..(i - 1) : registry[j] \notin is_project_service]
    ELSE None

\* if integration: ... else: ...
ResolveServiceFallsBack(integration) ==
    IF integration # None /\ ServiceOfIntegration(integration) # None
    THEN ServiceOfIntegration(integration)
    ELSE FirstProjectService

ResolveServiceDetectsFirst(integration) ==
    IF FirstProjectService # None THEN FirstProjectService
    ELSE ServiceOfIntegration(integration)

ResolveService(integration) ==
    IF integration # None THEN ServiceOfIntegration(integration) ELSE FirstProjectService

\* the service classes whose is_project_service(project) the call evaluates: none
\* with an integration, else those of the registry up to the first that holds
ConsultedServices(integration) ==
    IF integration # None THEN <<>>
    ELSE LET hits == {i \in 1..Len(registry) : registry[i] \in is_project_service}
             last == IF hits = {} THEN Len(registry)
                     ELSE CHOOSE i \in hits : \A j \in hits : i <= j
         IN  SubSeq(registry, 1, last)

\* Notification.objects.add(message_id=..., attached_to=project, ...)
NotificationAdded(message_id, project_pk, service_cls) ==
    [message_id |-> message_id, attached_to |-> project_pk,
     provider_name |-> IF service_cls = None THEN None
                       ELSE ProviderDisplayName(service_cls)]

\* if not project or not user:
MissingEntityUserOnly(project_pk, user_pk) == user_pk \notin Users

MissingEntity(project_pk, user_pk) == project_pk \notin Projects \/ user_pk \notin Users

\* project = Project.objects.filter(pk=project_pk).first(); user = ...;
\* if not project or not user: return False
AttachLoad(c) ==
    /\ attach[c].pc \in {"idle", "done"}
    /\ \E project_pk \in ProjectIds, user_pk \in {1, 3},
          integration \in IntegrationTypes \cup {None} :
        LET call == [IdleCall EXCEPT !.project_pk = project_pk, !.user_pk = user_pk,
                                     !.integration = integration]
        IN  IF MissingEntity(project_pk, user_pk)
            THEN attach' = [attach EXCEPT ![c] =
                               [call EXCEPT !.pc = "done", !.result = "False"]]
            ELSE attach' = [attach EXCEPT ![c] =
                               [call EXCEPT !.pc = "resolve", !.loaded = has_valid_webhook,
                                            !.project = has_valid_webhook]]
    /\ UNCHANGED <<has_valid_webhook, worldVars, syncVars, wkVars, orgVars>>

\* the service is determined; without one, MESSAGE_OAUTH_WEBHOOK_INVALID is
\* added and the call returns None; with one, user_accounts = service.for_user(user)
AttachResolve(c) ==
    /\ attach[c].pc = "resolve"
    /\ LET call == attach[c]
           service == ResolveService(call.integration)
       IN  IF service = None
           THEN attach' = [attach EXCEPT ![c] =
                   [call EXCEPT !.pc = "done", !.result = "None",
                                !.consulted = ConsultedServices(call.integration),
                                !.notifications = Append(@, NotificationAdded(
                                    MESSAGE_OAUTH_WEBHOOK_INVALID, call.project_pk, None))]]
           ELSE attach' = [attach EXCEPT ![c] =
                   [call EXCEPT !.pc = "accounts", !.service = service,
                                !.consulted = ConsultedServices(call.integration),
                                !.user_accounts = for_user(service, call.user_pk)]]
    /\ UNCHANGED <<has_valid_webhook, worldVars, syncVars, wkVars, orgVars>>

\* if success: (the attempt counts as a success)
SetupSucceededAlways(success) == TRUE

SetupSucceeded(success) == success

\* for account in user_accounts: the account of the next iteration
NextAccountFromTheEnd(call) == call.user_accounts[Len(call.user_accounts) - Len(call.tried)]

NextAccount(call) == call.user_accounts[Len(call.tried) + 1]

\* one iteration of `for account in user_accounts`: account.setup_webhook(...);
\* if success: project.has_valid_webhook = True, and project.save() is next
AttachSetup(c) ==
    /\ attach[c].pc = "accounts"
    /\ Len(attach[c].tried) < Len(attach[c].user_accounts)
    /\ \E success \in BOOLEAN :
        LET call == [attach[c] EXCEPT !.tried =
                        Append(@, [account |-> NextAccount(attach[c]), success |-> success])]
        IN  IF SetupSucceeded(success)
            THEN attach' = [attach EXCEPT ![c] =
                               [call EXCEPT !.pc = "save", !.project = TRUE]]
            ELSE attach' = [attach EXCEPT ![c] = call]
    /\ UNCHANGED <<has_valid_webhook, worldVars, syncVars, wkVars, orgVars>>

\* project.save() stores the fields of the call's project object
SavedFlagAsLoaded(call) == call.loaded

SavedFlag(call) == call.project

\* return True: where the call is after project.save()
AfterSaveContinues == "accounts"

AfterSave == "done"

\* project.save(); return True
AttachSave(c) ==
    /\ attach[c].pc = "save"
    /\ has_valid_webhook' = SavedFlag(attach[c])
    /\ attach' = [attach EXCEPT ![c] =
                      [@ EXCEPT !.pc = AfterSave, !.saves = @ + 1, !.result = "True"]]
    /\ UNCHANGED <<worldVars, syncVars, wkVars, orgVars>>

\* if user_accounts: (which message is added when no account succeeded)
NoAccountMessageSwapped(user_accounts) ==
    IF user_accounts # <<>> THEN MESSAGE_OAUTH_WEBHOOK_NO_ACCOUNT
    ELSE MESSAGE_OAUTH_WEBHOOK_NO_PERMISSIONS

NoAccountMessage(user_accounts) ==
    IF user_accounts # <<>> THEN MESSAGE_OAUTH_WEBHOOK_NO_PERMISSIONS
    ELSE MESSAGE_OAUTH_WEBHOOK_NO_ACCOUNT

\* No valid account found: the notification is added and the call returns False
AttachNotify(c) ==
    /\ attach[c].pc = "accounts"
    /\ Len(attach[c].tried) = Len(attach[c].user_accounts)
    /\ LET call == attach[c] IN
       attach' = [attach EXCEPT ![c] =
           [call EXCEPT !.pc = "done", !.result = "False",
                        !.notifications = Append(@, NotificationAdded(
                            NoAccountMessage(call.user_accounts), call.project_pk,
                            call.service))]]
    /\ UNCHANGED <<has_valid_webhook, worldVars, syncVars, wkVars, orgVars>>

\* ------------------------------------------------------------ initial states
InitWebhook ==
    /\ is_project_service = {}
    /\ has_valid_webhook = FALSE
    /\ webhook_at_start = FALSE
    /\ attach = [c \in Calls |-> IdleCall]

InitOrgs ==
    /\ organization_slugs = <<>>
    /\ orgPc = "idle"
    /\ query = {}
    /\ orgResolved = {}
    /\ organization = None
    /\ members = {}
    /\ n_task = 0
    /\ jobs = <<>>

InitNoOrganizations ==
    /\ orgMembers = [o \in Organizations |-> {}]
    /\ orgSSO = [o \in Organizations |-> "none"]

InitSync ==
    /\ syncUser = 0
    /\ syncCalls = <<>>
    /\ syncFailedAccounts = {}
    /\ syncOtherErrors = {}
    /\ failed_services = {}
    /\ syncResult = "none"
    /\ syncErrorProviders = <<>>

InitWeekly ==
    /\ wkPc = "idle"
    /\ wkRows = [u \in Users |-> 0]
    /\ wkSelected = [u \in Users |-> 0]
    /\ wkAttempts = [u \in Users |-> 0]
    /\ wkCaught = 0
    /\ wkResult = "none"
    /\ wkRuns = 0

Init ==
    /\ accounts \in [Users -> [Services -> 0..MaxAccounts]]
    /\ last_login = [u \in Users |-> <<>>]
    /\ now = 0
    /\ InitNoOrganizations
    /\ InitSync
    /\ InitWeekly
    /\ InitOrgs
    /\ InitWebhook

Next == sync_remote_repositories

Spec == Init /\ [][Next]_vars

\* the days a run happens on, and the days a user logged in last
RunDays == {200, 204}
LoginDays == {109, 186, 190}

\* the accounts a user holds with all the services together
TotalAccounts(f, u) == f[u][registry[1]] + f[u][registry[2]]

\* every user holds up to MaxAccounts accounts in all, spread over the services
InitWeeklyRun ==
    /\ accounts \in {f \in [Users -> [Services -> 0..MaxAccounts]] :
                        \A u \in Users : TotalAccounts(f, u) <= MaxAccounts}
    /\ last_login \in [Users -> {<<>>} \cup {<<d>> : d \in LoginDays}]
    /\ now \in RunDays
    /\ InitNoOrganizations
    /\ InitSync
    /\ InitWeekly
    /\ InitOrgs
    /\ InitWebhook

NextWeekly == WeeklyStart \/ WeeklyIter \/ WeeklyEnd

SpecWeekly == InitWeeklyRun /\ [][NextWeekly]_vars

\* the task run once a day, for a week
NextDaily == WeeklyStart \/ WeeklyIter \/ WeeklyEnd \/ NextDay

SpecDaily == InitWeeklyRun /\ [][NextDaily]_vars

InitOrganizations ==
    /\ accounts = [u \in Users |-> [s \in Services |-> 0]]
    /\ last_login = [u \in Users |-> <<>>]
    /\ now = 0
    /\ orgMembers \in [Organizations -> SUBSET Users]
    /\ orgSSO \in [Organizations -> {PROVIDER_ALLAUTH, "email", "none"}]
    /\ InitSync
    /\ InitWeekly
    /\ InitOrgs
    /\ InitWebhook

NextOrgs == OrgStart \/ OrgNextOrganization \/ OrgSubmit \/ OrgMembersDone \/ OrgEnd

SpecOrgs == InitOrganizations /\ [][NextOrgs]_vars

\* user 1 holds any accounts, user 2 none; any set of services claims the project
InitProject ==
    /\ accounts \in {f \in [Users -> [Services -> 0..MaxAccounts]] :
                        \A s \in Services : f[2][s] = 0}
    /\ last_login = [u \in Users |-> <<>>]
    /\ now = 0
    /\ InitNoOrganizations
    /\ is_project_service \in SUBSET Services
    /\ has_valid_webhook \in BOOLEAN
    /\ webhook_at_start = has_valid_webhook
    /\ attach = [c \in Calls |-> IdleCall]
    /\ InitSync
    /\ InitWeekly
    /\ InitOrgs

\* one call of attach_webhook after another
NextWebhook ==
    \/ AttachLoad(1)
    \/ AttachResolve(1)
    \/ AttachSetup(1)
    \/ AttachSave(1)
    \/ AttachNotify(1)

SpecWebhook == InitProject /\ [][NextWebhook]_vars

\* the calls of Calls, each made once, run on different workers: their steps
\* interleave in any order
NextConcurrent ==
    \E c \in Calls :
        \/ attach[c].pc = "idle" /\ AttachLoad(c)
        \/ AttachResolve(c)
        \/ AttachSetup(c)
        \/ AttachSave(c)
        \/ AttachNotify(c)

SpecConcurrent == InitProject /\ [][NextConcurrent]_vars

\* ------------------------------------------------------------------ claims

\* position of a service class in the registry
RegistryIndex(service_cls) == CHOOSE i \in 1..Len(registry) : registry[i] = service_cls

\* account a comes before account b in registry order, then account order
Before(a, b) ==
    \/ RegistryIndex(a[1]) < RegistryIndex(b[1])
    \/ a[1] = b[1] /\ a[2] < b[2]

\* the latest call was made for a stored user and no sync() raised an exception
\* of a class other than SyncServiceError
SyncEndedOnServiceErrorsOnly ==
    /\ syncUser \in Users
    /\ syncResult \in {"returned", "SyncServiceError"}

\* C1: for an existing user, sync() is invoked exactly once on every account of
\* every registered provider, in registry order then account order, however many
\* accounts failed with SyncServiceError; the aggregate error comes only after
\* the last account was attempted.
C1_EveryAccountSyncedInOrder ==
    SyncEndedOnServiceErrorsOnly =>
        /\ Range(syncCalls) = AccountsOf(syncUser)
        /\ Len(syncCalls) = Cardinality(AccountsOf(syncUser))
        /\ \A i, j \in 1..Len(syncCalls) : i < j => Before(syncCalls[i], syncCalls[j])

\* the first account failed with SyncServiceError and accounts of both providers
\* were still attempted after it
C1_Witness ==
    /\ SyncEndedOnServiceErrorsOnly
    /\ Len(syncCalls) >= 3
    /\ syncCalls[1] \in syncFailedAccounts
    /\ syncCalls[Len(syncCalls)][1] # syncCalls[1][1]
    /\ syncResult = "SyncServiceError"

\* the providers that had an account whose sync() raised SyncServiceError
FailedProviders == {provider_name(a) : a \in syncFailedAccounts}

NamesFailedProvidersOnce ==
    /\ Range(syncErrorProviders) = FailedProviders
    /\ Len(syncErrorProviders) = Cardinality(FailedProviders)

\* C2 as stated: the call for an existing user ends with the aggregate
\* SyncServiceError if and only if some account's sync() failed with
\* SyncServiceError, and the error names exactly the failed providers, each once.
C2_AggregateIffSomeFailure ==
    (syncUser \in Users /\ syncResult # "none") =>
        /\ syncResult = "SyncServiceError" <=> syncFailedAccounts # {}
        /\ syncResult = "SyncServiceError" => NamesFailedProvidersOnce

\* C2 amended: the same, for calls in which no sync() raised an exception of
\* another class than SyncServiceError.
C2_AggregateIffSomeFailureNoOtherException ==
    SyncEndedOnServiceErrorsOnly =>
        /\ syncResult = "SyncServiceError" <=> syncFailedAccounts # {}
        /\ syncResult = "SyncServiceError" => NamesFailedProvidersOnce

\* one provider succeeded on all its accounts while two accounts of the other failed
C2_Witness ==
    /\ SyncEndedOnServiceErrorsOnly
    /\ syncResult = "SyncServiceError"
    /\ Cardinality(syncFailedAccounts) = 2
    /\ Cardinality(FailedProviders) = 1
    /\ \E a \in Range(syncCalls) : provider_name(a) \notin FailedProviders

\* ---- sync_active_users_remote_repositories

Age(u) == now - last_login[u][1]

\* C9 as stated: every selected user is attempted exactly once per run whatever
\* the earlier users' syncs raised, and no exception leaves the run.
C9_EverySelectedUserAttemptedOnce ==
    wkPc = "done" =>
        /\ wkResult = "returned"
        /\ \A u \in Users : wkAttempts[u] = IF wkSelected[u] > 0 THEN 1 ELSE 0

\* what the loop does guarantee: every row of the queryset is attempted and the
\* run returns, whatever the calls raised
WeeklyEveryRowAttempted ==
    wkPc = "done" =>
        /\ wkResult = "returned"
        /\ \A u \in Users : wkAttempts[u] = wkSelected[u]

\* the user has a linked account and a last_login that stays within the last 90
\* days on every day up to today
ActiveLinked(u) ==
    /\ last_login[u] # <<>>
    /\ Age(u) < 90
    /\ \E s \in Services : accounts[u][s] >= 1

\* C11 as stated: with the task run once a day, every active user with a linked
\* account is re-synced exactly once in 7 consecutive daily runs.
C11_OncePerWeekPerUser ==
    (wkPc = "done" /\ wkRuns = 7) =>
        \A u \in Users : ActiveLinked(u) => wkAttempts[u] = 1

\* what the daily runs do guarantee: in 7 consecutive runs such a user is
\* re-synced once per linked account, all in the run of the user's weekday
DailyOncePerLinkedAccount ==
    (wkPc = "done" /\ wkRuns = 7) =>
        \A u \in Users : ActiveLinked(u) => wkAttempts[u] = Cardinality(AccountsOf(u))

\* C10: a user is selected if and only if last_login is within the last 90
\* days, the user has a linked account and last_login fell on today's weekday.
C10_SelectedIffActiveLinkedSameWeekday ==
    wkPc # "idle" =>
        \A u \in Users :
            wkSelected[u] > 0 <=>
                /\ last_login[u] # <<>>
                /\ Age(u) < 90
                /\ Age(u) % 7 = 0
                /\ \E s \in Services : accounts[u][s] >= 1

\* one user is selected while another with a linked account and a login on the
\* same weekday, more than 90 days ago, is not
C10_Witness ==
    /\ wkPc # "idle"
    /\ \E u, v \in Users :
        /\ wkSelected[u] > 0
        /\ wkSelected[v] = 0
        /\ last_login[v] # <<>> /\ Age(v) > 90 /\ Age(v) % 7 = 0
        /\ accounts[v][registry[1]] >= 1

\* ---- sync_remote_repositories_organizations

JobsFor(u) == Cardinality({i \in 1..Len(jobs) : jobs[i].user_id = u})

ResolvedMembers == UNION {orgMembers[o] : o \in orgResolved}

\* C7 as stated: one call submits exactly one job per distinct member across all
\* the resolved organizations.
C7_OneJobPerDistinctMember ==
    orgPc = "done" =>
        \A u \in Users : JobsFor(u) = IF u \in ResolvedMembers THEN 1 ELSE 0

\* what the loops do submit: one job per member of each resolved organization
OrgOneJobPerMembership ==
    orgPc = "done" =>
        \A u \in Users : JobsFor(u) = Cardinality({o \in orgResolved : u \in orgMembers[o]})

\* C8: the n-th job submitted in a call (n from 0, across all its organizations)
\* carries the delay 5 * n.
C8_NthJobDelayedFiveN ==
    \A i \in 1..Len(jobs) : jobs[i].countdown = 5 * (i - 1)

\* a finished call that submitted jobs for the members of two organizations
C8_Witness ==
    /\ orgPc = "done"
    /\ Cardinality(orgResolved) = 2
    /\ \A o \in orgResolved : orgMembers[o] # {}
    /\ Len(jobs) >= 3
    /\ jobs[Len(jobs)].countdown = 5 * (Len(jobs) - 1)

\* ---- attach_webhook

\* some setup_webhook of the call returned success
SetupSucceededIn(call) == \E i \in 1..Len(call.tried) : call.tried[i].success

\* the call found its project and its user
Loaded(call) == call.pc # "idle" /\ call.project_pk \in Projects /\ call.user_pk \in Users

\* C3: has_valid_webhook changes only from false to true, and only in a call in
\* which a setup_webhook returned success; a call in which every attempt failed,
\* or none was made, leaves the flag as it was.
C3_FlagOnlyRaisedBySuccess ==
    [][/\ has_valid_webhook' # has_valid_webhook =>
            /\ ~has_valid_webhook
            /\ has_valid_webhook'
            /\ \E c \in Calls :
                /\ attach[c].pc # "done"
                /\ attach'[c].pc = "done"
                /\ SetupSucceededIn(attach'[c])
       /\ \A c \in Calls :
            (Loaded(attach'[c]) /\ ~SetupSucceededIn(attach'[c])) =>
                has_valid_webhook' = attach'[c].loaded
      ]_vars

\* a call found the flag false, failed on its first account, succeeded on the
\* second and left the flag true
C3_Witness ==
    /\ attach[1].pc = "done"
    /\ ~attach[1].loaded
    /\ has_valid_webhook
    /\ Len(attach[1].tried) = 2
    /\ ~attach[1].tried[1].success
    /\ attach[1].tried[2].success

\* C4: with a service resolved and no successful setup_webhook, the call returns
\* False and adds exactly one notification: NO_PERMISSIONS when the user has an
\* account with the service, NO_ACCOUNT when the user has none; it carries the
\* provider's display name.
C4_OneFailureNotification ==
    \A c \in Calls :
        LET call == attach[c] IN
        (call.pc = "done" /\ call.service # None /\ ~SetupSucceededIn(call)) =>
            /\ call.result = "False"
            /\ Len(call.notifications) = 1
            /\ call.notifications[1].message_id =
                   IF accounts[call.user_pk][call.service] >= 1
                   THEN MESSAGE_OAUTH_WEBHOOK_NO_PERMISSIONS
                   ELSE MESSAGE_OAUTH_WEBHOOK_NO_ACCOUNT
            /\ call.notifications[1].provider_name = ProviderDisplayName(call.service)
            /\ call.notifications[1].attached_to = call.project_pk

\* both accounts of the user failed and NO_PERMISSIONS was added
C4_Witness ==
    /\ attach[1].pc = "done"
    /\ attach[1].service = "GitLab"
    /\ Len(attach[1].tried) = 2
    /\ ~SetupSucceededIn(attach[1])
    /\ Len(attach[1].notifications) = 1
    /\ attach[1].notifications[1].message_id = MESSAGE_OAUTH_WEBHOOK_NO_PERMISSIONS

\* no service can be resolved for the call: its integration has a type the
\* service map does not hold, or it has no integration and no registered
\* service claims the project
Unresolvable(call) ==
    \/ call.integration \in IntegrationTypes \ {"github_webhook", "gitlab_webhook"}
    \/ call.integration = None /\ \A i \in 1..Len(registry) : registry[i] \notin is_project_service

\* C5: when no service can be resolved the call adds exactly one
\* MESSAGE_OAUTH_WEBHOOK_INVALID notification attached to the project, returns
\* None (not False), calls setup_webhook on no account and leaves
\* has_valid_webhook unchanged.
C5_InvalidConfiguration ==
    \A c \in Calls :
        LET call == attach[c] IN
        (Loaded(call) /\ call.pc = "done" /\ Unresolvable(call)) =>
            /\ Len(call.notifications) = 1
            /\ call.notifications[1].message_id = MESSAGE_OAUTH_WEBHOOK_INVALID
            /\ call.notifications[1].attached_to = call.project_pk
            /\ call.result = "None"
            /\ call.tried = <<>>
            /\ call.saves = 0
            /\ has_valid_webhook = call.loaded

\* an integration of an unregistered type was passed for a project that a
\* registered service claims, by a user who holds an account with it
C5_Witness ==
    /\ attach[1].pc = "done"
    /\ attach[1].integration = "api_webhook"
    /\ "GitHub" \in is_project_service
    /\ accounts[1]["GitHub"] >= 1
    /\ attach[1].result = "None"

\* C6: the accounts are tried in enumeration order up to the first success; after
\* it no setup_webhook is called, has_valid_webhook is true and stored, the call
\* returns True and adds no notification, also when earlier accounts failed.
C6_StopsAtFirstSuccess ==
    \A c \in Calls :
        LET call == attach[c] IN
        /\ \A i \in 1..Len(call.tried) :
            /\ call.tried[i].account = <<call.service, i>>
            /\ call.tried[i].success => i = Len(call.tried)
        /\ (call.pc = "done" /\ SetupSucceededIn(call)) =>
            /\ has_valid_webhook
            /\ call.saves = 1
            /\ call.result = "True"
            /\ call.notifications = <<>>
        /\ call.result = "True" => SetupSucceededIn(call)

\* the first account failed, the second succeeded and the call returned True
C6_Witness ==
    /\ attach[1].pc = "done"
    /\ attach[1].result = "True"
    /\ Len(attach[1].tried) = 2
    /\ ~attach[1].tried[1].success
    /\ attach[1].tried[2].success
    /\ accounts[1][attach[1].service] = 2
    /\ attach[1].notifications = <<>>

\* C12: every call of attach_webhook adds at most one notification and saves
\* the project at most once, on every path and for any accounts and outcomes.
C12_AtMostOneNotificationOneSave ==
    \A c \in Calls :
        /\ Len(attach[c].notifications) <= 1
        /\ attach[c].saves <= 1

\* a call that found the flag already true, failed on an account, succeeded on
\* the next and saved once, adding no notification
C12_Witness ==
    /\ attach[1].pc = "done"
    /\ attach[1].loaded
    /\ attach[1].saves = 1
    /\ Len(attach[1].tried) = 2
    /\ attach[1].notifications = <<>>

\* the project or the user of the call is not stored
Missing(call) == call.project_pk \notin Projects \/ call.user_pk \notin Users

\* C13: a call whose project or user cannot be found returns False, adds no
\* notification, resolves no service, calls setup_webhook on no account and
\* leaves has_valid_webhook unchanged.
C13_MissingEntityAborts ==
    [][\A c \in Calls :
         (attach'[c] # attach[c] /\ attach'[c].pc = "done" /\ Missing(attach'[c])) =>
            /\ attach'[c].result = "False"
            /\ attach'[c].notifications = <<>>
            /\ attach'[c].service = None
            /\ attach'[c].consulted = <<>>
            /\ attach'[c].tried = <<>>
            /\ attach'[c].saves = 0
            /\ has_valid_webhook' = has_valid_webhook
      ]_vars

\* a call for an unknown user returned False although a service claims the
\* project and an integration of a registered type was passed
C13_Witness ==
    /\ attach[1].pc = "done"
    /\ attach[1].user_pk = 3
    /\ attach[1].project_pk \in Projects
    /\ attach[1].integration = "github_webhook"
    /\ is_project_service # {}
    /\ attach[1].result = "False"

\* the call has determined its service (or that there is none)
Resolved(call) == Loaded(call) /\ call.pc # "resolve"

\* C15: without an integration the accounts tried are those of the first service
\* in registry order that claims the project, and of no other service, also
\* when a later service claims it too and every account of the first fails.
C15_FirstClaimingServiceOnly ==
    \A c \in Calls :
        LET call == attach[c] IN
        (Resolved(call) /\ call.integration = None /\ is_project_service # {}) =>
            /\ call.service \in is_project_service
            /\ \A s \in is_project_service : RegistryIndex(call.service) <= RegistryIndex(s)
            /\ \A i \in 1..Len(call.tried) : call.tried[i].account[1] = call.service

\* both services claim the project, the user holds accounts with both, and the
\* call ended in failure after trying only the accounts of the first
C15_Witness ==
    /\ attach[1].pc = "done"
    /\ attach[1].integration = None
    /\ is_project_service = Services
    /\ \A s \in Services : accounts[1][s] >= 1
    /\ attach[1].result = "False"
    /\ Len(attach[1].tried) = accounts[1][registry[1]]

\* C16: with an integration the service is the one the service map holds for
\* its type, is_project_service is evaluated on no service, and an unregistered
\* type does not fall back to the services that claim the project.
C16_IntegrationBypassesDetection ==
    \A c \in Calls :
        LET call == attach[c] IN
        (Resolved(call) /\ call.integration # None) =>
            /\ call.consulted = <<>>
            /\ call.service = CASE call.integration = "github_webhook" -> "GitHub"
                                [] call.integration = "gitlab_webhook" -> "GitLab"
                                [] OTHER -> None
            /\ \A i \in 1..Len(call.tried) : call.tried[i].account[1] = call.service

\* a GitLab integration was passed for a project that only GitHub claims, and
\* a GitLab account was tried
C16_Witness ==
    /\ attach[1].integration = "gitlab_webhook"
    /\ is_project_service = {"GitHub"}
    /\ accounts[1]["GitHub"] >= 1
    /\ Len(attach[1].tried) >= 1
    /\ attach[1].tried[1].account[1] = "GitLab"

\* every call of Calls has ended
AllCallsEnded == \A c \in Calls : attach[c].pc = "done"

\* C18: with the steps of concurrent calls interleaved in any order, the stored
\* has_valid_webhook never goes back to false, and when all calls have ended it
\* is true if and only if a call had a successful setup_webhook or it was true
\* before the calls.
C18_FlagMonotoneUnderInterleaving ==
    [][/\ has_valid_webhook => has_valid_webhook'
       /\ AllCallsEnded' =>
            (has_valid_webhook' <=>
                (webhook_at_start \/ \E c \in Calls : SetupSucceededIn(attach'[c])))
      ]_vars

\* both calls loaded the flag as false; one succeeded, the other failed on its
\* account, and the flag is true when both have ended
C18_Witness ==
    /\ AllCallsEnded
    /\ ~webhook_at_start
    /\ ~attach[1].loaded /\ Loaded(attach[1])
    /\ ~attach[2].loaded /\ Loaded(attach[2])
    /\ Len(attach[1].tried) >= 1 /\ ~SetupSucceededIn(attach[1])
    /\ SetupSucceededIn(attach[2])
    /\ has_valid_webhook

\* ---- sync_remote_repositories, further claims

\* C14: the call returns without error and invokes sync() on no account when
\* the user id is not stored, and for a stored user with no linked account.
C14_NoUserOrNoAccountsIsSilent ==
    (syncResult # "none" /\
     (syncUser \notin Users \/ \A s \in Services : accounts[syncUser][s] = 0)) =>
        /\ syncResult = "returned"
        /\ syncCalls = <<>>

\* a call was made for a stored user without accounts while the other user
\* holds accounts with every service
C14_Witness ==
    /\ syncResult = "returned"
    /\ syncUser \in Users
    /\ \A s \in Services : accounts[syncUser][s] = 0
    /\ \E u \in Users : \A s \in Services : accounts[u][s] >= 1

\* C19: an exception of another class than SyncServiceError raised by an
\* account's sync() is not recorded in failed_services, leaves the call at once
\* (no aggregate error), and the accounts after it are not attempted.
C19_OtherExceptionPropagatesAtOnce ==
    (syncUser \in Users /\ syncOtherErrors # {}) =>
        LET raising == syncCalls[Len(syncCalls)] IN
        /\ syncResult = "Exception"
        /\ syncOtherErrors = {raising}
        /\ failed_services = FailedProviders
        /\ syncErrorProviders = <<>>
        /\ \A a \in AccountsOf(syncUser) :
            a \in Range(syncCalls) <=> (a = raising \/ Before(a, raising))

\* an account failed with SyncServiceError, a later one raised another
\* exception, and an account after that one was never synced
C19_Witness ==
    /\ syncResult = "Exception"
    /\ syncFailedAccounts # {}
    /\ Len(syncCalls) < Cardinality(AccountsOf(syncUser))
    /\ provider_name(syncCalls[Len(syncCalls)]) \notin failed_services

\* ---- sync_remote_repositories_organizations, further claims

\* the users the submitted jobs are for
JobUsers == {jobs[i].user_id : i \in 1..Len(jobs)}

\* C17 as stated: when organization_slugs is given the resolved organizations
\* are exactly those whose slug is in it, otherwise exactly those whose SSO
\* integration is in the allauth mode; jobs go to their members only.
C17_ResolvedBySlugsOrSSO ==
    orgPc # "idle" =>
        /\ orgResolved =
              IF organization_slugs # <<>>
              THEN {o \in Organizations : o \in organization_slugs[1]}
              ELSE {o \in Organizations : orgSSO[o] = "allauth"}
        /\ JobUsers \subseteq UNION {orgMembers[o] : o \in orgResolved}

\* what the task does: an empty list of slugs resolves like no list at all
OrgResolvedBySlugsUnlessEmpty ==
    orgPc # "idle" =>
        /\ orgResolved =
              IF organization_slugs # <<>> /\ organization_slugs[1] # {}
              THEN {o \in Organizations : o \in organization_slugs[1]}
              ELSE {o \in Organizations : orgSSO[o] = "allauth"}
        /\ JobUsers \subseteq UNION {orgMembers[o] : o \in orgResolved}

====
